---- MODULE Spec2Model ----
(***************************************************************************)
(* A model of standalone/html_to_markdown_converter.py: the class          *)
(* WebpageToMarkdownConverter and main().                                  *)
(*                                                                         *)
(* Text is a sequence of tokens.  A token is one character ("\n", " ",     *)
(* "#", "&", ...) or a run of characters none of the functions below looks *)
(* into ("foo.png", "nbsp;", "http://").  A path is text whose segments    *)
(* are separated by the token "/".                                         *)
(***************************************************************************)
EXTENDS Integers, Sequences, FiniteSets, TLC

\* ------------------------------------------------------------------ bounds
MaxNodes == 2
MaxMeta == 3
MaxTitleLen == 4
MaxFmtLen == 4

\* ------------------------------------------------------------ text helpers
Space == {" ", "\t", "\n"}
Digit == {"0", "1", "2", "3", "4", "5", "6", "7", "8", "9"}

RECURSIVE SeqsUpTo(_, _)
SeqsUpTo(S, n) ==
    IF n = 0 THEN {<<>>}
    ELSE LET shorter == SeqsUpTo(S, n - 1)
         IN  shorter \cup {Append(s, x) : s \in {t \in shorter : Len(t) = n - 1}, x \in S}

Drop(s, n) == SubSeq(s, n + 1, Len(s))

StartsWith(s, p) == Len(s) >= Len(p) /\ SubSeq(s, 1, Len(p)) = p

\* the number of consecutive tokens of S in s from position i on
RECURSIVE RunLen(_, _, _)
RunLen(s, i, S) ==
    IF i <= Len(s) /\ s[i] \in S THEN 1 + RunLen(s, i + 1, S) ELSE 0

\* str.replace(old, new): leftmost non-overlapping occurrences
RECURSIVE Replace(_, _, _)
Replace(s, old, new) ==
    IF s = <<>> THEN <<>>
    ELSE IF StartsWith(s, old) THEN new \o Replace(Drop(s, Len(old)), old, new)
    ELSE <<Head(s)>> \o Replace(Tail(s), old, new)

\* str.strip(): whitespace removed at both ends
RECURSIVE LStripSet(_, _)
LStripSet(s, S) ==
    IF s # <<>> /\ Head(s) \in S THEN LStripSet(Tail(s), S) ELSE s

RECURSIVE RStripSet(_, _)
RStripSet(s, S) ==
    IF s # <<>> /\ s[Len(s)] \in S THEN RStripSet(SubSeq(s, 1, Len(s) - 1), S) ELSE s

Strip(s) == RStripSet(LStripSet(s, Space), Space)

\* re.sub(S+, <<r>>, s) for a character class S
RECURSIVE SubRuns(_, _, _)
SubRuns(s, S, r) ==
    IF s = <<>> THEN <<>>
    ELSE IF Head(s) \in S THEN <<r>> \o SubRuns(Drop(s, RunLen(s, 1, S)), S, r)
    ELSE <<Head(s)>> \o SubRuns(Tail(s), S, r)

\* "\n".join(lines)
RECURSIVE Join(_)
Join(lines) ==
    IF lines = <<>> THEN <<>>
    ELSE IF Len(lines) = 1 THEN lines[1]
    ELSE lines[1] \o <<"\n">> \o Join(Tail(lines))

\* the position of the first token t in s at or after i, 0 if there is none
RECURSIVE Find(_, _, _)
Find(s, i, t) ==
    IF i > Len(s) THEN 0 ELSE IF s[i] = t THEN i ELSE Find(s, i + 1, t)

\* ------------------------------------------------------------- _clean_text
CleanText(text) ==
    IF text = <<>> THEN <<>>
    ELSE LET t0 == Strip(SubRuns(text, Space, " "))
             t1 == Replace(t0, <<"&", "nbsp;">>, <<" ">>)
             t2 == Replace(t1, <<"&", "amp;">>, <<"&">>)
             t3 == Replace(t2, <<"&", "lt;">>, <<"<">>)
             t4 == Replace(t3, <<"&", "gt;">>, <<">">>)
         IN  Replace(t4, <<"&", "quot;">>, <<"\"">>)

\* ------------------------------------------------ _fix_markdown_formatting
\* re.sub(r'\n{3,}', '\n\n', s)
RECURSIVE SubNewlines(_, _)
SubNewlines(s, i) ==
    IF i > Len(s) THEN <<>>
    ELSE LET r == RunLen(s, i, {"\n"})
         IN  IF r >= 3 THEN <<"\n", "\n">> \o SubNewlines(s, i + r)
             ELSE <<s[i]>> \o SubNewlines(s, i + 1)

\* re.sub(r'\n(#{1,6}\s)', r'\n\n\1', s)
RECURSIVE SubHeadingBefore(_, _)
SubHeadingBefore(s, i) ==
    IF i > Len(s) THEN <<>>
    ELSE LET h == RunLen(s, i + 1, {"#"})
         IN  IF /\ s[i] = "\n"
                /\ h \in 1..6
                /\ i + h + 1 <= Len(s)
                /\ s[i + h + 1] \in Space
             THEN <<"\n", "\n">> \o SubSeq(s, i + 1, i + h + 1)
                  \o SubHeadingBefore(s, i + h + 2)
             ELSE <<s[i]>> \o SubHeadingBefore(s, i + 1)

\* re.sub(r'(#{1,6}.*)\n([^\n#])', r'\1\n\n\2', s)
RECURSIVE SubHeadingAfter(_, _)
SubHeadingAfter(s, i) ==
    IF i > Len(s) THEN <<>>
    ELSE LET j == Find(s, i, "\n")
         IN  IF /\ s[i] = "#"
                /\ j # 0
                /\ j + 1 <= Len(s)
                /\ s[j + 1] \notin {"\n", "#"}
             THEN SubSeq(s, i, j) \o <<"\n", s[j + 1]>> \o SubHeadingAfter(s, j + 2)
             ELSE <<s[i]>> \o SubHeadingAfter(s, i + 1)

\* the length of the list marker (\*|\+|-|\d+\.) at position i, 0 if none
MarkerLen(s, i) ==
    IF i > Len(s) THEN 0
    ELSE IF s[i] \in {"*", "+", "-"} THEN 1
    ELSE LET d == RunLen(s, i, Digit)
         IN  IF d >= 1 /\ i + d <= Len(s) /\ s[i + d] = "." THEN d + 1 ELSE 0

\* re.sub(r'\n(\*|\+|-|\d+\.)\s', r'\n\n\1 ', s)
RECURSIVE SubListBefore(_, _)
SubListBefore(s, i) ==
    IF i > Len(s) THEN <<>>
    ELSE LET m == MarkerLen(s, i + 1)
         IN  IF /\ s[i] = "\n"
                /\ m >= 1
                /\ i + m + 1 <= Len(s)
                /\ s[i + m + 1] \in Space
             THEN <<"\n", "\n">> \o SubSeq(s, i + 1, i + m) \o <<" ">>
                  \o SubListBefore(s, i + m + 2)
             ELSE <<s[i]>> \o SubListBefore(s, i + 1)

\* re.sub(r'\n(>)', r'\n\n\1', s)
SubQuoteBefore(s) == Replace(s, <<"\n", ">">>, <<"\n", "\n", ">">>)

FixMarkdownFormatting(markdown_content) ==
    LET m1 == SubNewlines(markdown_content, 1)
        m2 == SubHeadingBefore(m1, 1)
        m3 == SubHeadingAfter(m2, 1)
        m4 == SubListBefore(m3, 1)
        m5 == SubQuoteBefore(m4)
        m6 == SubRuns(m5, {" ", "\t"}, " ")
    IN  Strip(m6)


\* ------------------------------------------------------- the metadata map
\* A Dict[str, str] in insertion order: a sequence of [key, value] records.
None == <<"<None>">>

Truthy(v) == v # None /\ v # <<>>

Keys(m) == {m[i].key : i \in 1..Len(m)}

MapGet(m, k) == (CHOOSE i \in 1..Len(m) : m[i].key = k) \* k \in Keys(m)

Value(m, k) == m[MapGet(m, k)].value

\* a faulty variant of MapPut: an existing key keeps its value
MapPutFirstWins(m, k, v) ==
    IF k \in Keys(m) THEN m ELSE Append(m, [key |-> k, value |-> v])

\* metadata[k] = v
MapPut(m, k, v) ==
    IF k \in Keys(m)
    THEN [i \in 1..Len(m) |-> IF m[i].key = k THEN [key |-> k, value |-> v] ELSE m[i]]
    ELSE Append(m, [key |-> k, value |-> v])

\* ------------------------------------------------------ _extract_metadata
\* element.get(attr): the attribute's value, None when the element has none
Get(element, attr) ==
    IF attr \in DOMAIN element THEN element[attr] ELSE None

\* the lookup table from a meta name to a metadata key ("" for an unrecognized name)
MetaKey(name) ==
    IF name \in {<<"description">>, <<"og:description">>} THEN "description"
    ELSE IF name \in {<<"author">>, <<"og:author">>} THEN "author"
    ELSE IF name \in {<<"keywords">>} THEN "keywords"
    ELSE IF name \in {<<"og:title">>} THEN "og_title"
    ELSE IF name \in {<<"og:url">>} THEN "url"
    ELSE IF name \in {<<"article:published_time">>, <<"pubdate">>} THEN "published"
    ELSE ""

\* meta.get('name') or meta.get('property')
MetaName(meta) ==
    IF Truthy(Get(meta, "name")) THEN Get(meta, "name") ELSE Get(meta, "property")

RECURSIVE ScanMetaTags(_, _)
ScanMetaTags(meta_tags, metadata) ==
    IF meta_tags = <<>> THEN metadata
    ELSE LET meta == Head(meta_tags)
             name == MetaName(meta)
             content == Get(meta, "content")
         IN  ScanMetaTags(Tail(meta_tags),
                 IF Truthy(name) /\ Truthy(content) /\ MetaKey(name) # ""
                 THEN MapPut(metadata, MetaKey(name), content)
                 ELSE metadata)

ExtractMetadata(soup) ==
    LET titled == IF soup.titles # <<>>
                  THEN <<[key |-> "title", value |-> CleanText(soup.titles[1])]>>
                  ELSE <<>>
    IN  ScanMetaTags(soup.metas, titled)

\* ------------------------------------------------- _create_final_markdown
RECURSIVE FrontMatterLines(_)
FrontMatterLines(metadata) ==
    IF metadata = <<>> THEN <<>>
    ELSE LET safe_value == Replace(Head(metadata).value, <<"\"">>, <<"\\", "\"">>)
         IN  <<(<<Head(metadata).key, ":", " ", "\"">> \o safe_value \o <<"\"">>)>>
             \o FrontMatterLines(Tail(metadata))

InfoLine(metadata, key, label) ==
    IF key \in Keys(metadata) THEN <<(<<label, " ">> \o Value(metadata, key))>> ELSE <<>>

CreateFinalMarkdown(metadata, content) ==
    Join(  (IF metadata # <<>>
            THEN <<(<<"---">>)>> \o FrontMatterLines(metadata) \o <<(<<"---">>), <<>>>>
            ELSE <<>>)
        \o (IF "title" \in Keys(metadata)
            THEN <<(<<"#", " ">> \o Value(metadata, "title")), <<>>>>
            ELSE <<>>)
        \o (IF \E key \in {"author", "published", "url"} : key \in Keys(metadata)
            THEN <<(<<"#", "#", " ", "Article Information">>), <<>>>>
                 \o InfoLine(metadata, "author", "**Author:**")
                 \o InfoLine(metadata, "published", "**Published:**")
                 \o InfoLine(metadata, "url", "**Original URL:**")
                 \o <<(<<>>)>>
                 \o (IF "description" \in Keys(metadata)
                     THEN InfoLine(metadata, "description", "**Description:**") \o <<(<<>>)>>
                     ELSE <<>>)
            ELSE <<>>)
        \o <<(<<"---">>), <<>>, content>>)


\* ------------------------------------------------------------ the file system
\* The input file is page.html.  A disk is [dirs, files]: the directories beside
\* the input file that exist, and the files below its directory (a path relative
\* to base_dir |-> the file's content).
Exists(files, path) == path \in DOMAIN files

Under(folder, path) == folder \o <<"/">> \o path

\* _find_assets_folder
AssetsPatterns == << <<"page_files">>, <<"page_assets">>, <<"page.html_files">> >>

FindAssetsFolder(dirs) ==
    IF \E i \in 1..Len(AssetsPatterns) : AssetsPatterns[i] \in dirs
    THEN AssetsPatterns[CHOOSE i \in 1..Len(AssetsPatterns) :
             /\ AssetsPatterns[i] \in dirs
             /\ \A j \in 1..(i - 1) : AssetsPatterns[j] \notin dirs]
    ELSE None

\* os.path.basename
RECURSIVE Basename(_)
Basename(path) ==
    IF Find(path, 1, "/") = 0 THEN path ELSE Basename(Drop(path, Find(path, 1, "/")))

\* str.lstrip('./') on a path: leading "." and "/" characters go
LStripDotSlash(path) == LStripSet(path, {".", "..", "/"})

\* ---------------------------------------------------------- _process_image
\* [ret |-> the returned path, images |-> the images directory afterwards,
\*  copies |-> whether shutil.copy2 ran]
PotentialPaths(img_src, assets_folder) ==
    << Under(assets_folder, Basename(img_src)),
       Under(assets_folder, LStripDotSlash(img_src)),
       LStripDotSlash(img_src) >>

\* a faulty variant: copy2 without the dest_path.exists() test
ProcessImageOverwrite(img_src, assets_folder, files, images) ==
    IF img_src = <<>> THEN [ret |-> <<>>, images |-> images, copies |-> FALSE]
    ELSE IF Head(img_src) \in {"http://", "https://"}
    THEN [ret |-> img_src, images |-> images, copies |-> FALSE]
    ELSE IF Head(img_src) = "data:"
    THEN [ret |-> <<>>, images |-> images, copies |-> FALSE]
    ELSE LET img_filename == Basename(img_src)
             paths == PotentialPaths(img_src, assets_folder)
             found == {i \in 1..Len(paths) : Exists(files, paths[i])}
         IN  IF assets_folder # None /\ found # {}
             THEN LET img_path == paths[CHOOSE i \in found : \A j \in found : i <= j]
                  IN  [ret |-> <<"images/">> \o img_filename,
                       images |-> [b \in DOMAIN images \cup {img_filename} |->
                                     IF b = img_filename THEN files[img_path] ELSE images[b]],
                       copies |-> TRUE]
             ELSE [ret |-> img_src, images |-> images, copies |-> FALSE]

\* a faulty variant: the path is rewritten and nothing is copied
ProcessImageNoCopy(img_src, assets_folder, files, images) ==
    [ProcessImageOverwrite(img_src, assets_folder, files, images)
        EXCEPT !.images = images, !.copies = FALSE]

ProcessImage(img_src, assets_folder, files, images) ==
    IF img_src = <<>> THEN [ret |-> <<>>, images |-> images, copies |-> FALSE]
    ELSE IF Head(img_src) \in {"http://", "https://"}
    THEN [ret |-> img_src, images |-> images, copies |-> FALSE]
    ELSE IF Head(img_src) = "data:"
    THEN [ret |-> <<>>, images |-> images, copies |-> FALSE]
    ELSE LET img_filename == Basename(img_src)
             paths == PotentialPaths(img_src, assets_folder)
             found == {i \in 1..Len(paths) : Exists(files, paths[i])}
         IN  IF assets_folder # None /\ found # {}
             THEN LET img_path == paths[CHOOSE i \in found : \A j \in found : i <= j]
                      copies == img_filename \notin DOMAIN images
                  IN  [ret |-> <<"images/">> \o img_filename,
                       images |-> IF copies
                                  THEN [b \in DOMAIN images \cup {img_filename} |->
                                          IF b = img_filename THEN files[img_path]
                                          ELSE images[b]]
                                  ELSE images,
                       copies |-> copies]
             ELSE [ret |-> img_src, images |-> images, copies |-> FALSE]

\* the body of convert()'s loop over soup.find_all('img'), for one img
RewriteImg(img, new_src) ==
    IF Get(img, "src") # <<>>
    THEN [img EXCEPT !.src = IF new_src # <<>> THEN new_src ELSE @,
                     !.alt = IF @ = <<>> THEN <<"Image">> ELSE @]
    ELSE img

\* ----------------------------------------------------- _process_code_blocks
\* the token of three backticks that opens and closes a fenced block
Fence == "[three backticks]"

RECURSIVE Language(_)
Language(classes) ==
    IF classes = <<>> THEN <<>>
    ELSE IF StartsWith(Head(classes), <<"language-">>)
    THEN Replace(Head(classes), <<"language-">>, <<>>)
    ELSE IF StartsWith(Head(classes), <<"lang-">>)
    THEN Replace(Head(classes), <<"lang-">>, <<>>)
    ELSE Language(Tail(classes))

ProcessCodeBlock(pre) ==
    IF pre.tag = "pre" /\ pre.code
    THEN [pre EXCEPT !.text = <<Fence>> \o Language(pre.classes) \o <<"\n">> \o @
                              \o <<"\n", Fence>>,
                     !.code = FALSE]
    ELSE pre

ProcessCodeBlocks(nodes) == [i \in 1..Len(nodes) |-> ProcessCodeBlock(nodes[i])]

\* ----------------------------------------------------- _extract_main_content
\* A node's path is the elements it lies in, outermost first; the elements the
\* two selector lists can match are named by their selector.
UnwantedSelectors == {"script", "style", "nav", "header", "footer",
                      ".advertisement", ".ad", ".popup", ".modal",
                      ".cookie-banner", ".newsletter-signup",
                      "[class*=\"ad-\"]", "[id*=\"ad-\"]",
                      ".social-share", ".comments-section"}

MainContentSelectors == <<"main", "article", "[role=\"main\"]",
                          ".post-content", ".article-content", ".entry-content",
                          ".content", ".main-content">>

Within(node, selector) == \E k \in 1..Len(node.path) : node.path[k] = selector

Unwanted(node) == \E selector \in UnwantedSelectors : Within(node, selector)

Decompose(nodes) == SelectSeq(nodes, LAMBDA node : ~Unwanted(node))

\* the ids of the nodes of the returned element, in document order
MainContent(nodes) ==
    LET hits == {i \in 1..Len(MainContentSelectors) :
                    \E k \in 1..Len(nodes) : Within(nodes[k], MainContentSelectors[i])}
        ids(sub) == [k \in 1..Len(sub) |-> sub[k].id]
    IN  IF hits # {}
        THEN LET selector == MainContentSelectors[CHOOSE i \in hits : \A j \in hits : i <= j]
             IN  ids(SelectSeq(nodes, LAMBDA node : Within(node, selector)))
        ELSE ids(nodes)

\* ------------------------------------------------------------ md(...)
\* markdownify's rendering of the selected nodes: an img as ![alt](src), a pre
\* as a fenced block
RenderNode(node) ==
    IF node.tag = "img"
    THEN <<"![">> \o node.alt \o <<"](">> \o node.src \o <<")">>
    ELSE <<"\n", Fence, "\n">> \o node.text \o <<"\n", Fence, "\n">>

RECURSIVE Render(_, _)
Render(nodes, main_ids) ==
    IF nodes = <<>> THEN <<>>
    ELSE (IF \E k \in 1..Len(main_ids) : main_ids[k] = Head(nodes).id
          THEN RenderNode(Head(nodes)) \o <<"\n", "\n">>
          ELSE <<>>)
         \o Render(Tail(nodes), main_ids)


\* ------------------------------------------------------------------- state
VARIABLES
    html_exists,      \* main: html_path.exists()
    html,             \* the document in the input file: [titles, metas, nodes]
    disk,             \* the files and directories beside the input file
    assets_folder,    \* self.assets_folder, None when no pattern matches
    images,           \* the files of self.images_dir: basename |-> content
    processed_images, \* self.processed_images
    soup,             \* the parsed tree, mutated in place
    img_i,            \* how many of soup.find_all('img') the loop has done
    metadata,         \* convert's metadata
    main_content,     \* convert's main_content: the ids of the selected nodes
    markdown_content, \* convert's markdown_content
    final_markdown,   \* convert's final_markdown
    output_file,      \* the content of self.output_file on disk
    pc,               \* the statement of main/convert to run next
    done,             \* the stages of convert that have completed, in order
    failed_at,        \* the stage that raised, "" if none did
    exit_code         \* the process's exit code, -1 while it runs

vars == <<html_exists, html, disk, assets_folder, images, processed_images, soup,
          img_i, metadata, main_content, markdown_content, final_markdown,
          output_file, pc, done, failed_at, exit_code>>

\* a faulty order: the selection ahead of the rewriting
ConvertOrderSelectFirst ==
    <<"load", "metadata", "select", "images", "code", "render", "format",
      "assemble", "write">>

\* a faulty order: the file written ahead of the rendering
ConvertOrderWriteFirst ==
    <<"load", "metadata", "images", "code", "select", "write", "render", "format",
      "assemble">>

\* the statements of convert(), in the order it runs them
ConvertOrder ==
    <<"load", "metadata", "images", "code", "select", "render", "format",
      "assemble", "write">>

Stages == {ConvertOrder[i] : i \in 1..Len(ConvertOrder)}

StageIndex(stage) == CHOOSE i \in 1..Len(ConvertOrder) : ConvertOrder[i] = stage

StageAfter(stage) ==
    IF StageIndex(stage) < Len(ConvertOrder) THEN ConvertOrder[StageIndex(stage) + 1]
    ELSE "done"

StagesBefore(stage) == SubSeq(ConvertOrder, 1, StageIndex(stage) - 1)

OldFile == <<"(what the output file held before the run)">>

EmptyDoc == [titles |-> <<>>, metas |-> <<>>, nodes |-> <<>>]

\* BeautifulSoup(html_content, 'html.parser'): each node gets its identity
Parse(doc) ==
    [doc EXCEPT !.nodes = [i \in 1..Len(doc.nodes) |->
        [id |-> i, tag |-> doc.nodes[i].tag, path |-> doc.nodes[i].path,
         src |-> doc.nodes[i].src, alt |-> doc.nodes[i].alt,
         classes |-> doc.nodes[i].classes, text |-> doc.nodes[i].text,
         code |-> doc.nodes[i].code]]]

\* the positions in nodes of its img elements: soup.find_all('img')
RECURSIVE ImgPositions(_, _)
ImgPositions(nodes, i) ==
    IF i > Len(nodes) THEN <<>>
    ELSE (IF nodes[i].tag = "img" THEN <<i>> ELSE <<>>) \o ImgPositions(nodes, i + 1)

\* ------------------------------------------------------------------ inputs
Img(src, alt, path) ==
    [tag |-> "img", path |-> path, src |-> src, alt |-> alt,
     classes |-> <<>>, text |-> <<>>, code |-> FALSE]

Pre(classes, code, path) ==
    [tag |-> "pre", path |-> path, src |-> <<>>, alt |-> <<>>,
     classes |-> classes, text |-> <<"print(1)">>, code |-> code]

ImgSrcs == { <<>>,
             <<"http://", "x.org", "/", "x.png">>,
             <<"data:", "image/png;base64,AAAA">>,
             <<"foo.png">>,
             <<"a", "/", "bar.png">>,
             <<".", "/", "b", "/", "bar.png">> }

NodePaths == { <<"main">>, <<"article">>, <<"nav">>, <<>> }

NodeKinds ==
    {Img(src, IF src \in {<<"foo.png">>, <<>>} THEN <<"pic">> ELSE <<>>, path) :
        src \in ImgSrcs, path \in NodePaths}
    \cup {Pre(<< <<"hl">>, <<"language-", "python">> >>, TRUE, <<"main">>),
          Pre(<<>>, FALSE, <<"main">>)}

Meta(name, property, content) ==
    [name |-> name, property |-> property, content |-> content]

\* the documents of the whole runs: one head, every body of up to MaxNodes nodes
Docs == {[titles |-> << <<"T">> >>,
          metas |-> << Meta(<<"description">>, None, <<"D">>) >>,
          nodes |-> nodes] : nodes \in SeqsUpTo(NodeKinds, MaxNodes)}

\* the documents of the metadata runs: every head of up to MaxMeta meta tags
MetaTags == {Meta(names[1], names[2], content) :
                names \in {<<None, None>>,
                           <<(<<"description">>), None>>,
                           <<None, (<<"og:description">>)>>,
                           <<(<<"keywords">>), (<<"og:description">>)>>},
                content \in {None, <<>>, <<"v1">>, <<"v2">>}}

MetaDocs == {[titles |-> << <<"T">> >>, metas |-> metas, nodes |-> <<>>] :
                metas \in SeqsUpTo(MetaTags, MaxMeta)}

\* the documents of the title runs: every title text of up to MaxTitleLen tokens
TitleTokens == {"&", "nbsp;", "amp;", "lt;", "quot;", " ", "a", "\""}

TitleDocs == {[titles |-> <<text>> \o more, metas |-> <<>>, nodes |-> <<>>] :
                 text \in SeqsUpTo(TitleTokens, MaxTitleLen),
                 more \in {<<>>, << <<"second">> >>}}

\* the documents of the assembly runs: heads over the keys of the information block
InfoTags == {Meta(<<"description">>, None, <<"D">>),
             Meta(<<"author">>, None, <<"A">>),
             Meta(None, <<"article:published_time">>, <<"P">>),
             Meta(None, <<"og:url">>, <<"U">>)}

InfoDocs == {[titles |-> titles, metas |-> metas, nodes |-> <<>>] :
                titles \in {<<>>, << <<"T">> >>},
                metas \in SeqsUpTo(InfoTags, MaxMeta)}

\* the texts of the formatter runs: every text of up to MaxFmtLen tokens
FmtTokens == {"\n", "#", " ", "-", ">", "a"}

FmtTexts == SeqsUpTo(FmtTokens, MaxFmtLen)

File(path, content) == [p \in {path} |-> content]

NoFiles == [p \in {} |-> ""]

\* [dirs, files, images]: the disk, and what the images directory already holds
Worlds ==
    { [dirs |-> {<<"page_files">>},
       files |-> File(<<"page_files", "/", "foo.png">>, "F")
                 @@ File(<<"page_files", "/", "a", "/", "bar.png">>, "A")
                 @@ File(<<"page_files", "/", "b", "/", "bar.png">>, "B"),
       images |-> NoFiles],
      [dirs |-> {<<"page_files">>},
       files |-> File(<<"page_files", "/", "foo.png">>, "F")
                 @@ File(<<"page_files", "/", "a", "/", "bar.png">>, "A")
                 @@ File(<<"page_files", "/", "b", "/", "bar.png">>, "B"),
       images |-> File(<<"bar.png">>, "P")],
      [dirs |-> {<<"page_assets">>, <<"page.html_files">>},
       files |-> File(<<"page_assets", "/", "foo.png">>, "F")
                 @@ File(<<"b", "/", "bar.png">>, "B"),
       images |-> NoFiles],
      [dirs |-> {},
       files |-> File(<<"foo.png">>, "F"),
       images |-> NoFiles] }

\* ------------------------------------------------------------------ actions
Start(doc, world, exists, at) ==
    /\ html_exists = exists
    /\ html = doc
    /\ disk = [dirs |-> world.dirs, files |-> world.files]
    /\ assets_folder = IF at = "main" THEN None ELSE FindAssetsFolder(world.dirs)
    /\ images = world.images
    /\ processed_images = <<>>
    /\ soup = IF at \in {"main", "load"} THEN EmptyDoc ELSE Parse(doc)
    /\ img_i = 0
    /\ main_content = <<>>
    /\ final_markdown = <<>>
    /\ output_file = OldFile
    /\ pc = at
    /\ done = IF at = "main" THEN <<>> ELSE StagesBefore(at)
    /\ failed_at = ""
    /\ exit_code = -1

Init ==
    /\ \E world \in Worlds :
          \/ \E doc \in Docs : Start(doc, world, TRUE, "main")
          \/ Start(EmptyDoc, world, FALSE, "main")
    /\ metadata = <<>>
    /\ markdown_content = <<>>

\* main(): the existence check, then the constructor
Main ==
    /\ pc = "main"
    /\ IF html_exists
       THEN /\ assets_folder' = FindAssetsFolder(disk.dirs)
            /\ pc' = ConvertOrder[1]
            /\ UNCHANGED exit_code
       ELSE /\ pc' = "exit"
            /\ exit_code' = 1
            /\ UNCHANGED assets_folder
    /\ UNCHANGED <<html_exists, html, disk, images, processed_images, soup, img_i,
                   metadata, main_content, markdown_content, final_markdown,
                   output_file, done, failed_at>>

Advance(stage) ==
    /\ pc' = StageAfter(stage)
    /\ done' = Append(done, stage)
    /\ exit_code' = IF StageAfter(stage) = "done" THEN 0 ELSE exit_code

\* the read (utf-8, or latin-1 after a UnicodeDecodeError: either way the text
\* of the file) and the parse
StageLoad ==
    /\ pc = "load"
    /\ soup' = Parse(html)
    /\ Advance("load")
    /\ UNCHANGED <<html_exists, html, disk, assets_folder, images, processed_images,
                   img_i, metadata, main_content, markdown_content, final_markdown,
                   output_file, failed_at>>

StageMetadata ==
    /\ pc = "metadata"
    /\ metadata' = ExtractMetadata(soup)
    /\ Advance("metadata")
    /\ UNCHANGED <<html_exists, html, disk, assets_folder, images, processed_images,
                   soup, img_i, main_content, markdown_content, final_markdown,
                   output_file, failed_at>>

StageImages ==
    /\ pc = "images"
    /\ LET imgs == ImgPositions(soup.nodes, 1)
       IN  IF img_i < Len(imgs)
           THEN LET k == imgs[img_i + 1]
                    img == soup.nodes[k]
                    src == Get(img, "src")
                    r == ProcessImage(src, assets_folder, disk.files, images)
                IN  /\ soup' = [soup EXCEPT !.nodes[k] = RewriteImg(img, r.ret)]
                    /\ images' = IF src # <<>> THEN r.images ELSE images
                    /\ img_i' = img_i + 1
                    /\ IF img_i + 1 = Len(imgs)
                       THEN Advance("images")
                       ELSE UNCHANGED <<pc, done, exit_code>>
           ELSE /\ Advance("images")
                /\ UNCHANGED <<soup, images, img_i>>
    /\ UNCHANGED <<html_exists, html, disk, assets_folder, processed_images,
                   metadata, main_content, markdown_content, final_markdown,
                   output_file, failed_at>>

StageCode ==
    /\ pc = "code"
    /\ soup' = [soup EXCEPT !.nodes = ProcessCodeBlocks(@)]
    /\ Advance("code")
    /\ UNCHANGED <<html_exists, html, disk, assets_folder, images, processed_images,
                   img_i, metadata, main_content, markdown_content, final_markdown,
                   output_file, failed_at>>

StageSelect ==
    /\ pc = "select"
    /\ soup' = [soup EXCEPT !.nodes = Decompose(@)]
    /\ main_content' = MainContent(Decompose(soup.nodes))
    /\ Advance("select")
    /\ UNCHANGED <<html_exists, html, disk, assets_folder, images, processed_images,
                   img_i, metadata, markdown_content, final_markdown,
                   output_file, failed_at>>

StageRender ==
    /\ pc = "render"
    /\ markdown_content' = Render(soup.nodes, main_content)
    /\ Advance("render")
    /\ UNCHANGED <<html_exists, html, disk, assets_folder, images, processed_images,
                   soup, img_i, metadata, main_content, final_markdown,
                   output_file, failed_at>>

StageFormat ==
    /\ pc = "format"
    /\ markdown_content' = FixMarkdownFormatting(markdown_content)
    /\ Advance("format")
    /\ UNCHANGED <<html_exists, html, disk, assets_folder, images, processed_images,
                   soup, img_i, metadata, main_content, final_markdown,
                   output_file, failed_at>>

StageAssemble ==
    /\ pc = "assemble"
    /\ final_markdown' = CreateFinalMarkdown(metadata, markdown_content)
    /\ Advance("assemble")
    /\ UNCHANGED <<html_exists, html, disk, assets_folder, images, processed_images,
                   soup, img_i, metadata, main_content, markdown_content,
                   output_file, failed_at>>

\* open(self.output_file, 'w'): the file is truncated
OpenOutput ==
    /\ pc = "write"
    /\ output_file' = <<>>
    /\ pc' = "writing"
    /\ UNCHANGED <<html_exists, html, disk, assets_folder, images, processed_images,
                   soup, img_i, metadata, main_content, markdown_content,
                   final_markdown, done, failed_at, exit_code>>

\* f.write(final_markdown), and the file is closed
WriteOutput ==
    /\ pc = "writing"
    /\ output_file' = final_markdown
    /\ Advance("write")
    /\ UNCHANGED <<html_exists, html, disk, assets_folder, images, processed_images,
                   soup, img_i, metadata, main_content, markdown_content,
                   final_markdown, failed_at>>

\* A statement of convert() raises; main's except clause reports it and exits
\* with 1.  A write that fails leaves what had reached the file by then.
Raise ==
    /\ pc \in Stages \cup {"writing"}
    /\ \E n \in {0, Len(final_markdown) \div 2} :
          output_file' = IF pc = "writing" THEN SubSeq(final_markdown, 1, n)
                         ELSE output_file
    /\ failed_at' = IF pc = "writing" THEN "write" ELSE pc
    /\ pc' = "failed"
    /\ exit_code' = 1
    /\ UNCHANGED <<html_exists, html, disk, assets_folder, images, processed_images,
                   soup, img_i, metadata, main_content, markdown_content,
                   final_markdown, done>>

Convert ==
    \/ StageLoad
    \/ StageMetadata
    \/ StageImages
    \/ StageCode
    \/ StageSelect
    \/ StageRender
    \/ StageFormat
    \/ StageAssemble
    \/ OpenOutput
    \/ WriteOutput

Next == Main \/ Convert \/ Raise

Spec == Init /\ [][Next]_vars


\* the metadata extractor alone, over every head
InitMeta ==
    /\ \E doc \in MetaDocs :
          Start(doc, [dirs |-> {}, files |-> NoFiles, images |-> NoFiles], TRUE, "metadata")
    /\ metadata = <<>>
    /\ markdown_content = <<>>

NextMeta == StageMetadata

SpecMeta == InitMeta /\ [][NextMeta]_vars

\* whole runs in which nothing raises, over every title
InitTitle ==
    /\ \E doc \in TitleDocs :
          Start(doc, [dirs |-> {}, files |-> NoFiles, images |-> NoFiles], TRUE, "main")
    /\ metadata = <<>>
    /\ markdown_content = <<>>

NextRun == Main \/ Convert

SpecTitle == InitTitle /\ [][NextRun]_vars

\* whole runs in which nothing raises, over the heads of the information block
InitInfo ==
    /\ \E doc \in InfoDocs :
          Start(doc, [dirs |-> {}, files |-> NoFiles, images |-> NoFiles], TRUE, "main")
    /\ metadata = <<>>
    /\ markdown_content = <<>>

SpecInfo == InitInfo /\ [][NextRun]_vars

\* the formatter alone, over every rendered text
InitFmt ==
    /\ Start(EmptyDoc, [dirs |-> {}, files |-> NoFiles, images |-> NoFiles], TRUE, "format")
    /\ metadata = <<>>
    /\ markdown_content \in FmtTexts

NextFmt == StageFormat

SpecFmt == InitFmt /\ [][NextFmt]_vars


\* ------------------------------------------------------------------ claims
Ran(stage) == \E k \in 1..Len(done) : done[k] = stage

\* whether text has a line that begins with the token t
HasLine(text, t) ==
    \E i \in 1..Len(text) : text[i] = t /\ (i = 1 \/ text[i - 1] = "\n")

IsPrefix(a, b) == Len(a) <= Len(b) /\ SubSeq(b, 1, Len(a)) = a

\* text holds a Markdown image whose target is src
HasRef(text, src) ==
    \E i \in 1..Len(text) :
        /\ i + Len(src) + 1 <= Len(text)
        /\ SubSeq(text, i, i + Len(src) + 1) = <<"](">> \o src \o <<")">>

\* the node of the tree that came from node i of the document, if it is still there
Live(i) == \E k \in 1..Len(soup.nodes) : soup.nodes[k].id = i

NodeOf(i) == soup.nodes[CHOOSE k \in 1..Len(soup.nodes) : soup.nodes[k].id = i]

Selected(i) == \E k \in 1..Len(main_content) : main_content[k] = i

IsDataImg(node) ==
    node.tag = "img" /\ node.src # <<>> /\ Head(node.src) = "data:"

\* C1: once the image loop has run, every img whose src began with "data:" has
\* an empty src in the tree, and the written document holds no data: reference.
C1_DataSrcCleared ==
    /\ Ran("images") =>
          \A i \in 1..Len(html.nodes) :
              (IsDataImg(html.nodes[i]) /\ Live(i)) => NodeOf(i).src = <<>>
    /\ pc = "done" => \A k \in 1..Len(output_file) : output_file[k] # "data:"

\* the imgs of the document with src="foo.png", when foo.png is in the assets folder
FooImgs ==
    IF assets_folder # None /\ Exists(disk.files, Under(assets_folder, <<"foo.png">>))
    THEN {i \in 1..Len(html.nodes) :
             html.nodes[i].tag = "img" /\ html.nodes[i].src = <<"foo.png">>}
    ELSE {}

\* C2 as stated: after a completed run, for every such img wherever it stands,
\* images/foo.png exists and the Markdown refers to images/foo.png and not to foo.png.
C2_EveryPosition ==
    pc = "done" =>
        \A i \in FooImgs :
            /\ <<"foo.png">> \in DOMAIN images
            /\ HasRef(output_file, <<"images/", "foo.png">>)
            /\ ~HasRef(output_file, <<"foo.png">>)

\* C2 amended: after a completed run images/foo.png exists for every such img;
\* the Markdown refers to images/foo.png exactly when one of them lies in the
\* selected content, outside every removed element; it never refers to foo.png.
C2_SelectedPosition ==
    pc = "done" =>
        /\ \A i \in FooImgs : <<"foo.png">> \in DOMAIN images
        /\ \A i \in FooImgs : Selected(i) =>
               /\ Live(i)
               /\ NodeOf(i).src = <<"images/", "foo.png">>
               /\ HasRef(output_file, <<"images/", "foo.png">>)
        /\ (\A i \in FooImgs : ~Selected(i)) =>
               ~HasRef(output_file, <<"images/", "foo.png">>)
        /\ FooImgs # {} => ~HasRef(output_file, <<"foo.png">>)

C2_Witness ==
    /\ pc = "done"
    /\ \E i, j \in FooImgs : Selected(i) /\ ~Selected(j) /\ html.nodes[j].path = <<"nav">>
    /\ images[<<"foo.png">>] = "F"

\* C3: a file of the images directory is never written again: once
\* images/<basename> exists, every step leaves it there with the same content.
C3_CopiedAtMostOnce ==
    [][\A b \in DOMAIN images : b \in DOMAIN images' /\ images'[b] = images[b]]_vars

\* two references with one basename and different sources have both been
\* handled, and the file is the first one's
C3_Witness ==
    /\ img_i = 2
    /\ Len(html.nodes) = 2
    /\ html.nodes[1].src = <<"a", "/", "bar.png">>
    /\ html.nodes[2].src = <<".", "/", "b", "/", "bar.png">>
    /\ soup.nodes[1].src = <<"images/", "bar.png">>
    /\ soup.nodes[2].src = <<"images/", "bar.png">>
    /\ Exists(disk.files, <<"page_files", "/", "b", "/", "bar.png">>)
    /\ images = File(<<"bar.png">>, "A")

MetaKeys == {"description", "author", "keywords", "og_title", "url", "published"}

Last(S) == CHOOSE i \in S : \A j \in S : j <= i

\* the meta tags that have a name or a property, and a content attribute, and
\* map to key
TagsWithAttributes(key) ==
    {i \in 1..Len(html.metas) :
        /\ Get(html.metas[i], "name") # None \/ Get(html.metas[i], "property") # None
        /\ Get(html.metas[i], "content") # None
        /\ MetaKey(MetaName(html.metas[i])) = key}

\* the same, with a name (or else property) and a content that are not empty
TagsWithValues(key) ==
    {i \in 1..Len(html.metas) :
        /\ Truthy(MetaName(html.metas[i]))
        /\ Truthy(Get(html.metas[i], "content"))
        /\ MetaKey(MetaName(html.metas[i])) = key}

\* C4 as stated: after extraction each key other than title holds the content
\* of the last tag that has the attributes and maps to it, and is absent when
\* there is no such tag.
C4_LastTagWins ==
    Ran("metadata") =>
        \A key \in MetaKeys :
            IF TagsWithAttributes(key) # {}
            THEN /\ key \in Keys(metadata)
                 /\ Value(metadata, key) = html.metas[Last(TagsWithAttributes(key))].content
            ELSE key \notin Keys(metadata)

\* C4 amended: the same over the tags whose name (or else property) and content
\* are not empty.
C4_LastValueWins ==
    Ran("metadata") =>
        \A key \in MetaKeys :
            IF TagsWithValues(key) # {}
            THEN /\ key \in Keys(metadata)
                 /\ Value(metadata, key) = html.metas[Last(TagsWithValues(key))].content
            ELSE key \notin Keys(metadata)

C4_Witness ==
    /\ Ran("metadata")
    /\ Len(html.metas) = 3
    /\ html.metas[1] = Meta(<<"description">>, None, <<"v1">>)
    /\ html.metas[2] = Meta(None, <<"og:description">>, <<"v2">>)
    /\ html.metas[3] = Meta(<<"keywords">>, <<"og:description">>, <<"v1">>)
    /\ Value(metadata, "description") = <<"v2">>
    /\ Value(metadata, "keywords") = <<"v1">>

\* one pass over text that decodes the five escapes
RECURSIVE DecodeEntities(_)
DecodeEntities(text) ==
    IF text = <<>> THEN <<>>
    ELSE IF StartsWith(text, <<"&", "nbsp;">>) THEN <<" ">> \o DecodeEntities(Drop(text, 2))
    ELSE IF StartsWith(text, <<"&", "amp;">>) THEN <<"&">> \o DecodeEntities(Drop(text, 2))
    ELSE IF StartsWith(text, <<"&", "lt;">>) THEN <<"<">> \o DecodeEntities(Drop(text, 2))
    ELSE IF StartsWith(text, <<"&", "gt;">>) THEN <<">">> \o DecodeEntities(Drop(text, 2))
    ELSE IF StartsWith(text, <<"&", "quot;">>) THEN <<"\"">> \o DecodeEntities(Drop(text, 2))
    ELSE <<Head(text)>> \o DecodeEntities(Tail(text))

\* the value of the title field of the front matter: what stands between the
\* quotes of the title line, its escaped quotes read back
TitleField(text) ==
    LET from == 3
        to == Find(text, from, "\n")
    IN  Replace(SubSeq(text, from + 4, to - 2), <<"\\", "\"">>, <<"\"">>)

\* C5: the title field of the written front matter is the text of the first
\* title, its escapes decoded, its whitespace runs collapsed and its ends trimmed.
C5_TitleField ==
    (pc = "done" /\ html.titles # <<>>) =>
        /\ SubSeq(output_file, 1, 6) = <<"---", "\n", "title", ":", " ", "\"">>
        /\ TitleField(output_file)
             = Strip(SubRuns(DecodeEntities(html.titles[1]), Space, " "))

\* C6: formatting the formatted text again changes nothing.
C6_Idempotent ==
    Ran("format") => FixMarkdownFormatting(markdown_content) = markdown_content

\* C7: the written document has each of the four information lines exactly
\* when the metadata has its key.
C7_InfoLines ==
    pc = "done" =>
        /\ HasLine(output_file, "**Description:**") <=> "description" \in Keys(metadata)
        /\ HasLine(output_file, "**Author:**") <=> "author" \in Keys(metadata)
        /\ HasLine(output_file, "**Published:**") <=> "published" \in Keys(metadata)
        /\ HasLine(output_file, "**Original URL:**") <=> "url" \in Keys(metadata)

\* C8 as stated: a run that failed left the output file as it was or holding
\* the complete document.
C8_NoPartialOutput ==
    pc = "failed" =>
        /\ exit_code = 1
        /\ output_file = OldFile \/ output_file = final_markdown

\* C8 amended: a run that failed before the write left the output file as it
\* was; one that failed in the write left it as it was or holding a proper
\* prefix of the document; a run that completed left the whole document.
C8_NoOutputBeforeWrite ==
    /\ pc = "failed" =>
          /\ exit_code = 1
          /\ failed_at # "write" => output_file = OldFile
          /\ failed_at = "write" =>
                \/ output_file = OldFile
                \/ /\ IsPrefix(output_file, final_markdown)
                   /\ output_file # final_markdown
    /\ pc = "done" => exit_code = 0 /\ output_file = final_markdown

C8_Witness ==
    /\ pc = "failed"
    /\ failed_at = "assemble"
    /\ <<"foo.png">> \in DOMAIN images
    /\ markdown_content # <<>>
    /\ output_file = OldFile

\* the image references the loop has handled so far
HandledSrcs ==
    IF soup.nodes = <<>> THEN {}
    ELSE {html.nodes[i].src : i \in {j \in 1..Len(html.nodes) :
             /\ html.nodes[j].tag = "img"
             /\ html.nodes[j].src # <<>>
             /\ Cardinality({k \in 1..j : html.nodes[k].tag = "img"}) <= img_i}}

\* C9: the record holds an entry for every image reference handled so far, and
\* at the end as many entries as distinct references were handled.
C9_RecordBuilt ==
    /\ \A src \in HandledSrcs : src \in Keys(processed_images)
    /\ pc = "done" => Len(processed_images) = Cardinality(HandledSrcs)

\* C10 as stated: the stages complete in the order load, metadata, selection
\* and cleaning, image rewrite, code rewrite, render, format, assembly, write.
C10_SelectBeforeRewrite ==
    IsPrefix(done, <<"load", "metadata", "select", "images", "code", "render",
                     "format", "assemble", "write">>)

RewriteFirstOrder ==
    <<"load", "metadata", "images", "code", "select", "render", "format",
      "assemble", "write">>

\* C10 amended: the stages complete in the order load, metadata, image rewrite,
\* code rewrite, selection and cleaning, render, format, assembly, write, each
\* once; no node is removed or selected before every img has been handled.
C10_RewriteBeforeSelect ==
    /\ IsPrefix(done, RewriteFirstOrder)
    /\ pc \in Stages => pc = RewriteFirstOrder[Len(done) + 1]
    /\ pc = "writing" => Len(done) = 8
    /\ pc = "done" => Len(done) = 9
    /\ ~Ran("code") => main_content = <<>> /\ Len(soup.nodes) \in {0, Len(html.nodes)}
    /\ Ran("select") => img_i = Len(ImgPositions(html.nodes, 1))

C10_Witness ==
    /\ pc = "done"
    /\ Len(done) = 9
    /\ img_i = 2
    /\ Len(soup.nodes) = 1
    /\ soup.nodes[1].src = <<"images/", "foo.png">>

====
